---- MODULE Spec2Model ----
(***************************************************************************)
(* Model of the VoxSeg backend node (modules/server.py, VoxSegServer).     *)
(*                                                                         *)
(* The node registers three topic subscribers and one service with rospy.  *)
(* rospy runs the callbacks of different topics, and the handler of every  *)
(* service connection, on threads of their own; the handlers take no lock, *)
(* so their statements interleave.  Each statement that touches the shared *)
(* objects (self.data, self.world, self.img_count) is one action here.     *)
(*                                                                         *)
(* modules/data.py (BackendData) and modules/voxel_world.py (VoxelWorld)   *)
(* are not among the sources; their methods are modelled from the          *)
(* specification (Batch Accumulator, ClassRegistry, reconstruction         *)
(* engine) and each call of them is one atomic step.                       *)
(***************************************************************************)
EXTENDS Integers, Sequences, FiniteSets, TLC

\* ---------------------------------------------------------------- bounds
MaxBatch == 2          \* largest BATCH_SIZE tried (0 stands for None)
MaxImages == 3         \* image messages delivered in one run
MaxRequests == 2       \* compute requests issued in one run
MaxResets == 1         \* reset messages delivered in one run
MaxClassUpdates == 1   \* class messages delivered in one run
MaxBadImages == 1      \* image messages that cannot be decoded, in one run
MaxRacing == 3         \* messages delivered in one run of racing handlers
LabelLo == -2          \* smallest label the encoding is tried on
LabelHi == 256         \* largest label the encoding is tried on

\* one handler thread per service connection
Reqs == {1, 2}

\* ------------------------------------------------------------- variables
VARIABLES
    batch_size,   \* self.batch_size (BATCH_SIZE); 0 models None
    img_count,    \* self.img_count
    pending,      \* self.data: the frames appended and not yet flushed
    registry,     \* self.data.classes / .prompts / .use_prompts
    world,        \* self.world: the frames integrated since the last reset
    calls,        \* the calls made on self.world, in order
    reqPc,        \* position of each compute-request handler
    reqTensors,   \* local 'tensors' of each request
    reqFlag,      \* the truth value of self.data.use_prompts each request read
    reqVoxels,    \* local 'voxel_classes' of each request
    reqOut,       \* what each request handler last returned
    imgPc,        \* position of _depth_image_callback
    imgFrame,     \* the frame decoded from the message being handled
    imgTmp,       \* the value of self.img_count read by 'self.img_count += 1'
    imgTensors,   \* the batch unpacked at line 106
    imgOut,       \* how the image callback last ended
    rstPc,        \* position of _reset_callback
    rstSnap,      \* where the other handlers stood when the reset began
    dropped,      \* frames discarded by data.reset_all
    hist,         \* the handlers that have returned, in order of return
    nImg, nReq, nRst, nCls,   \* messages delivered so far
    nBad,         \* image messages that could not be decoded so far
    syncQ,        \* ImageSaver: the unmatched stamps of each synchronized topic
    saved,        \* ImageSaver: the frames its callback has stored
    tfSeen        \* ImageSaver: the stamps of the /tf messages received

serverVars == <<batch_size, img_count, pending, registry, world, calls,
          reqPc, reqTensors, reqFlag, reqVoxels, reqOut,
          imgPc, imgFrame, imgTmp, imgTensors, imgOut,
          rstPc, rstSnap, dropped, hist, nImg, nReq, nRst, nCls, nBad>>

syncVars == <<syncQ, saved, tfSeen>>

vars == <<serverVars, syncVars>>

reqVars == <<reqPc, reqTensors, reqFlag, reqVoxels, reqOut>>
imgVars == <<imgPc, imgFrame, imgTmp, imgTensors, imgOut>>
rstVars == <<rstPc, rstSnap>>
cntVars == <<nImg, nReq, nRst, nCls, nBad>>

\* --------------------------------------------------------------- values
None == "None"

\* The None that data.get_tensors returns when nothing is pending, and the
\* tensors of a batch of frames.
NoTensors == [none |-> TRUE, frames |-> <<>>]

Tensors(p) == [none |-> FALSE, frames |-> p]

\* The registry before any class update and after reset_all.
UnsetRegistry == [classes |-> <<>>, prompts |-> <<>>, use_prompts |-> None]

\* Python truth value of self.data.use_prompts (line 54).
Truthy(v) == v = "True"

\* Line 50: 'if tensors:', the truth value of the result of get_tensors.
HasTensors_Never(t) == FALSE

HasTensors(t) == t # NoTensors

\* Line 106: the result of get_tensors is unpacked into three names; None
\* cannot be unpacked.
Unpackable(t) == t # NoTensors

\* Line 103: 'if self.batch_size:'
BatchMode_Always(bs) == TRUE

BatchMode(bs) == bs # 0

\* Line 105: 'if self.img_count == self.batch_size:'
AutoFlushDue_Never(count, bs) == count = bs + 1

AutoFlushDue(count, bs) == count = bs

\* The class messages delivered on CLASS_TOPIC.
ClassMsgs ==
    { [classes |-> c, prompts |-> p, use_prompts |-> u] :
        c \in { <<"tree">>, <<"rock", "road">> },
        p \in { << [key |-> "plant", values |-> <<"tree", "bush">>] >> },
        u \in BOOLEAN }

\* Lines 118-122: the key/value list of the message as a dict; a later
\* entry with the same key replaces an earlier one.
RECURSIVE PromptsDict(_)
PromptsDict(kvs) ==
    IF kvs = <<>> THEN <<>>
    ELSE LET n    == Len(kvs)
             rest == PromptsDict(SubSeq(kvs, 1, n - 1))
             last == kvs[n]
         IN [k \in (DOMAIN rest) \cup {last.key} |->
                IF k = last.key THEN last.values ELSE rest[k]]

\* ------------------------------------------------- BackendData (data.py)
\* data.add_depth_image: the frame joins the end of the pending sequence.
add_depth_image(p, f) == Append(p, f)

\* data.get_tensors: the pending frames as one batch, or None when nothing
\* is pending.
get_tensors(p) == IF p = <<>> THEN NoTensors ELSE Tensors(p)

\* data.add_class_info: the registry is replaced as a whole.
add_class_info(classes, prompts, use_prompts) ==
    [classes |-> classes, prompts |-> prompts,
     use_prompts |-> IF use_prompts THEN "True" ELSE "False"]

\* ------------------------------------------------ VoxelWorld (the engine)
\* A call on self.world as it is logged: the method, for a query which of
\* the two representations was passed (line 55 or line 57), and the argument.
UpdateCall(batch) == [op |-> "update", kind |-> "batch", arg |-> batch]
QueryCall(flag, vocab) ==
    [op |-> "query", kind |-> IF flag THEN "prompts" ELSE "classes",
     arg |-> vocab]
ResetCall == [op |-> "reset", kind |-> "none", arg |-> <<>>]

\* world.batched_update_world: the batch is integrated into the world.
batched_update_world(w, batch) == w \o batch

\* The labels of the voxel grid, flattened: a voxel is unknown (-1) while
\* the world is empty or no vocabulary is given, else it has a class index.
EngineLabels(w, vocab) ==
    << IF w = <<>> \/ DOMAIN vocab = {} THEN -1 ELSE 0 >>

\* world.get_voxel_classes: the labels depend on the world and on the
\* vocabulary the query was made with.
get_voxel_classes(w, vocab) ==
    [world |-> w, vocab |-> vocab, labels |-> EngineLabels(w, vocab)]

\* Line 63: .byte() keeps the low eight bits of a value.
ByteRange == 256

ToByte(v) == v % ByteRange

\* Line 62-63: (voxel_classes + 1) ... .byte(), for one label.
EncodeLabel_NoOffset(l) == ToByte(l)

EncodeLabel(l) == ToByte(l + 1)

\* Line 60-78: the response built from the labels of the query.
Response(voxels) ==
    [kind |-> "response", voxels |-> voxels,
     data |-> [i \in DOMAIN voxels.labels |-> EncodeLabel(voxels.labels[i])],
     size |-> Len(voxels.labels)]

\* What a request handler has returned before it has run at all.
NoResponse ==
    [kind |-> "none", voxels |-> get_voxel_classes(<<>>, <<>>),
     data |-> <<>>, size |-> 0]

\* --------------------------------------- ImageSaver (save_rgb_depth.py)
\* Line 69-70: the topics the synchronizer is built on, in order.
Channels == <<"rgb", "depth", "tf_odom", "tf_rgb", "tf_depth">>

ChannelSet == { Channels[i] : i \in DOMAIN Channels }

\* Line 51-52: the topics that the sensors publish.
SensorChannels == {"rgb", "depth"}

\* Line 71: slop = 0.1 s and queue_size = 100; stamps are in 1/100 s.
Slop == 10

QueueSize == 100

\* The stamps the messages of a run carry.
Stamps == {100, 102, 104, 200}

Abs(x) == IF x < 0 THEN -x ELSE x

\* The history of a topic holds at most queue_size stamps: the oldest go.
RECURSIVE Trim(_)
Trim(q) ==
    IF Cardinality(q) <= QueueSize THEN q
    ELSE Trim(q \ { CHOOSE s \in q : \A u \in q : s <= u })

\* The stamps of a history that are within slop of t.
Candidates(q, t) == { s \in q : Abs(s - t) <= Slop }

\* Of these the closest to t; of two equally close the earlier.
Closest(q, t) ==
    CHOOSE s \in Candidates(q, t) :
        \A u \in Candidates(q, t) :
            \/ Abs(s - t) < Abs(u - t)
            \/ Abs(s - t) = Abs(u - t) /\ s <= u

\* Line 98-123: the callback decodes the two images and stores them with
\* both extrinsics None.
callback(frames, m) ==
    Append(frames, [rgb |-> m["rgb"], depth |-> m["depth"],
                    rgb_extrinsics |-> None, depth_extrinsics |-> None])

\* Line 74-96: the transforms publish_tf_list_to_specific_tfs republishes on
\* /tf_odom, /tf_rgb and /tf_depth: the loop only assigns local names and
\* no publisher is ever used.
Republished_All(t) == {"tf_odom", "tf_rgb", "tf_depth"}

Republished(t) == {}

SyncInit ==
    /\ syncQ = [c \in ChannelSet |-> {}]
    /\ saved = <<>>
    /\ tfSeen = {}

\* The synchronizer takes the messages with stamp t of the topics of 'chs':
\* each joins its history; when every topic has a stamp within slop of t,
\* the closest of each are consumed and handed to the callback as one tuple.
SyncAdd(chs, t) ==
    LET Q1 == [c \in ChannelSet |->
                  IF c \in chs THEN Trim(syncQ[c] \cup {t}) ELSE syncQ[c]]
        ok == \A c \in ChannelSet : Candidates(Q1[c], t) # {}
        m  == [c \in ChannelSet |-> Closest(Q1[c], t)]
    IN IF chs = {}
          THEN UNCHANGED <<syncQ, saved>>
          ELSE IF ok
                  THEN /\ syncQ' = [c \in ChannelSet |-> Q1[c] \ {m[c]}]
                       /\ saved' = callback(saved, m)
                  ELSE /\ syncQ' = Q1
                       /\ UNCHANGED saved

\* Line 51-52, 69-72: an RGB or a depth message arrives.
SensorArrive ==
    \E c \in SensorChannels, t \in Stamps :
        /\ SyncAdd({c}, t)
        /\ UNCHANGED tfSeen
        /\ UNCHANGED serverVars

\* Line 56, 74-96: a /tf message arrives.
TfArrive ==
    \E t \in Stamps :
        /\ tfSeen' = tfSeen \cup {t}
        /\ SyncAdd(Republished(t), t)
        /\ UNCHANGED serverVars

\* ----------------------------------------------------------------- Init
Init ==
    /\ batch_size \in 0..MaxBatch
    /\ img_count = 0
    /\ pending = <<>>
    /\ registry = UnsetRegistry
    /\ world = <<>>
    /\ calls = <<>>
    /\ reqPc = [r \in Reqs |-> "idle"]
    /\ reqTensors = [r \in Reqs |-> NoTensors]
    /\ reqFlag = [r \in Reqs |-> FALSE]
    /\ reqVoxels = [r \in Reqs |-> get_voxel_classes(<<>>, <<>>)]
    /\ reqOut = [r \in Reqs |-> NoResponse]
    /\ imgPc = "idle"
    /\ imgFrame = 0
    /\ imgTmp = 0
    /\ imgTensors = NoTensors
    /\ imgOut = None
    /\ rstPc = "idle"
    /\ rstSnap = <<>>
    /\ dropped = {}
    /\ hist = <<>>
    /\ nImg = 0 /\ nReq = 0 /\ nRst = 0 /\ nCls = 0 /\ nBad = 0
    /\ SyncInit

\* No handler is between its first and its last statement.
Quiescent ==
    /\ \A r \in Reqs : reqPc[r] = "idle"
    /\ imgPc = "idle"
    /\ rstPc = "idle"

\* Where the handlers other than the reset stand.  Every statement of theirs
\* moves one of these on, and none of them ever moves back.
OtherHandlers == <<reqPc, imgPc, nImg, nReq, nCls, nBad>>

\* A handler returns: the state it leaves behind is recorded.
Returned(op, c, p, n) ==
    Append(hist, [op |-> op, ncalls |-> Len(c), npend |-> Len(p),
                  count |-> n, nadded |-> nImg])

\* ------------------------------------- _handle_compute_request (45-78)
\* The service call arrives.
ReqStart_Zeroes(r) ==
    /\ reqPc[r] = "idle"
    /\ nReq < MaxRequests
    /\ nReq' = nReq + 1
    /\ reqPc' = [reqPc EXCEPT ![r] = "flush"]
    /\ reqTensors' = [reqTensors EXCEPT ![r] = NoTensors]
    /\ reqVoxels' = [reqVoxels EXCEPT ![r] = get_voxel_classes(<<>>, <<>>)]
    /\ img_count' = 0
    /\ UNCHANGED syncVars
    /\ UNCHANGED <<reqFlag, reqOut, batch_size, pending, registry, world,
                   calls, imgVars, rstVars, dropped, hist, nImg, nRst, nCls,
                   nBad>>

ReqStart(r) ==
    /\ reqPc[r] = "idle"
    /\ nReq < MaxRequests
    /\ nReq' = nReq + 1
    /\ reqPc' = [reqPc EXCEPT ![r] = "flush"]
    /\ reqTensors' = [reqTensors EXCEPT ![r] = NoTensors]
    /\ reqVoxels' = [reqVoxels EXCEPT ![r] = get_voxel_classes(<<>>, <<>>)]
    /\ UNCHANGED syncVars
    /\ UNCHANGED <<reqFlag, reqOut, batch_size, img_count, pending, registry,
                   world, calls, imgVars, rstVars, dropped, hist, nImg, nRst,
                   nCls, nBad>>

\* Line 49-50: tensors = self.data.get_tensors(world=self.world)
ReqFlush_Waits(r) ==
    /\ reqPc[r] = "flush"
    /\ imgPc = "idle"
    /\ reqPc' = [reqPc EXCEPT ![r] =
                    IF HasTensors(get_tensors(pending)) THEN "update"
                                                        ELSE "query"]
    /\ reqTensors' = [reqTensors EXCEPT ![r] = get_tensors(pending)]
    /\ pending' = <<>>
    /\ UNCHANGED syncVars
    /\ UNCHANGED <<reqFlag, reqVoxels, reqOut, batch_size, img_count, registry,
                   world, calls, imgVars, rstVars, dropped, hist, cntVars>>

ReqFlush(r) ==
    /\ reqPc[r] = "flush"
    /\ reqPc' = [reqPc EXCEPT ![r] =
                    IF HasTensors(get_tensors(pending)) THEN "update"
                                                        ELSE "query"]
    /\ reqTensors' = [reqTensors EXCEPT ![r] = get_tensors(pending)]
    /\ pending' = <<>>
    /\ UNCHANGED syncVars
    /\ UNCHANGED <<reqFlag, reqVoxels, reqOut, batch_size, img_count, registry,
                   world, calls, imgVars, rstVars, dropped, hist, cntVars>>

\* Line 51-52: self.world.batched_update_world(image_tensor, depths, cam_locs)
ReqUpdate_Skipped(r) ==
    /\ reqPc[r] = "update"
    /\ reqPc' = [reqPc EXCEPT ![r] = "query"]
    /\ UNCHANGED syncVars
    /\ UNCHANGED <<reqTensors, reqFlag, reqVoxels, reqOut, batch_size,
                   img_count, pending, registry, world, calls, imgVars, rstVars,
                   dropped, hist, cntVars>>

ReqUpdate(r) ==
    /\ reqPc[r] = "update"
    /\ reqPc' = [reqPc EXCEPT ![r] = "query"]
    /\ world' = batched_update_world(world, reqTensors[r].frames)
    /\ calls' = Append(calls, UpdateCall(reqTensors[r].frames))
    /\ UNCHANGED syncVars
    /\ UNCHANGED <<reqTensors, reqFlag, reqVoxels, reqOut, batch_size,
                   img_count, pending, registry, imgVars, rstVars, dropped, hist,
                   cntVars>>

\* Line 54-57: the representation the flag selects.
SelectVocabulary_Classes(flag, reg) == reg.classes

SelectVocabulary(flag, reg) == IF flag THEN reg.prompts ELSE reg.classes

\* Line 54-57: the vocabulary a query is made with when nothing changes the
\* registry between the test of the flag and the call.
Vocabulary(reg) == SelectVocabulary(Truthy(reg.use_prompts), reg)

\* Line 54: if self.data.use_prompts:
ReqFlag(r) ==
    /\ reqPc[r] = "query"
    /\ reqPc' = [reqPc EXCEPT ![r] = "vocab"]
    /\ reqFlag' = [reqFlag EXCEPT ![r] = Truthy(registry.use_prompts)]
    /\ UNCHANGED syncVars
    /\ UNCHANGED <<reqTensors, reqVoxels, reqOut, batch_size, img_count,
                   pending, registry, world, calls, imgVars, rstVars, dropped,
                   hist, cntVars>>

\* Line 55 / 57: voxel_classes = self.world.get_voxel_classes(...) with
\* self.data.prompts or self.data.classes as they are now.
ReqQuery(r) ==
    /\ reqPc[r] = "vocab"
    /\ reqPc' = [reqPc EXCEPT ![r] = "encode"]
    /\ reqVoxels' = [reqVoxels EXCEPT ![r] =
           get_voxel_classes(world, SelectVocabulary(reqFlag[r], registry))]
    /\ calls' = Append(calls,
           QueryCall(reqFlag[r], SelectVocabulary(reqFlag[r], registry)))
    /\ UNCHANGED syncVars
    /\ UNCHANGED <<reqTensors, reqFlag, reqOut, batch_size, img_count, pending,
                   registry, world, imgVars, rstVars, dropped, hist, cntVars>>

\* Line 60-78: the labels are packed into the response and returned.
ReqEncode(r) ==
    /\ reqPc[r] = "encode"
    /\ reqPc' = [reqPc EXCEPT ![r] = "idle"]
    /\ reqOut' = [reqOut EXCEPT ![r] = Response(reqVoxels[r])]
    /\ hist' = Returned("request", calls, pending, img_count)
    /\ UNCHANGED syncVars
    /\ UNCHANGED <<reqTensors, reqFlag, reqVoxels, batch_size, img_count,
                   pending, registry, world, calls, imgVars, rstVars, dropped,
                   cntVars>>

\* Line 47-78: the next statement of a request that has started.
ReqStep(r) ==
    \/ ReqFlush(r)
    \/ ReqUpdate(r)
    \/ ReqFlag(r)
    \/ ReqQuery(r)
    \/ ReqEncode(r)

\* Line 47-78 as the state machine Idle, Flushing, Querying, Encoding.
Phase(pc) ==
    CASE pc = "idle" -> "Idle"
      [] pc \in {"flush", "update"} -> "Flushing"
      [] pc \in {"query", "vocab"} -> "Querying"
      [] pc = "encode" -> "Encoding"

\* --------------------------------------- _depth_image_callback (81-108)
\* Line 83-97: a message arrives and its frame is decoded.
ImgStart ==
    /\ imgPc = "idle"
    /\ nImg < MaxImages
    /\ nImg' = nImg + 1
    /\ imgFrame' = nImg + 1
    /\ imgPc' = "add"
    /\ imgOut' = None
    /\ UNCHANGED syncVars
    /\ UNCHANGED <<imgTmp, imgTensors, batch_size, img_count, pending,
                   registry, world, calls, reqVars, rstVars, dropped, hist,
                   nReq, nRst, nCls, nBad>>

\* Line 88-97: a message arrives whose image or depth payload cannot be
\* decoded, or whose extrinsics are not 16 numbers: the statement raises,
\* rospy logs the exception and the callback is over.
ImgBad_Counted ==
    /\ imgPc = "idle"
    /\ nBad < MaxBadImages
    /\ nBad' = nBad + 1
    /\ imgOut' = "DecodeError"
    /\ img_count' = img_count + 1
    /\ hist' = Returned("badimage", calls, pending, img_count')
    /\ UNCHANGED syncVars
    /\ UNCHANGED <<imgPc, imgFrame, imgTmp, imgTensors, batch_size, pending,
                   registry, world, calls, reqVars, rstVars, dropped, nImg,
                   nReq, nRst, nCls>>

ImgBad ==
    /\ imgPc = "idle"
    /\ nBad < MaxBadImages
    /\ nBad' = nBad + 1
    /\ imgOut' = "DecodeError"
    /\ hist' = Returned("badimage", calls, pending, img_count)
    /\ UNCHANGED syncVars
    /\ UNCHANGED <<imgPc, imgFrame, imgTmp, imgTensors, batch_size, img_count,
                   pending, registry, world, calls, reqVars, rstVars, dropped,
                   nImg, nReq, nRst, nCls>>

\* Line 99-103: self.data.add_depth_image(...); if self.batch_size:
ImgAdd ==
    /\ imgPc = "add"
    /\ pending' = add_depth_image(pending, imgFrame)
    /\ IF BatchMode(batch_size)
          THEN /\ imgPc' = "inc_read"
               /\ UNCHANGED <<imgOut, hist>>
          ELSE /\ imgPc' = "idle"
               /\ imgOut' = "ok"
               /\ hist' = Returned("image", calls, pending', img_count)
    /\ UNCHANGED syncVars
    /\ UNCHANGED <<imgFrame, imgTmp, imgTensors, batch_size, img_count,
                   registry, world, calls, reqVars, rstVars, dropped, cntVars>>

\* Line 104: self.img_count += 1, the read
ImgIncRead ==
    /\ imgPc = "inc_read"
    /\ imgTmp' = img_count
    /\ imgPc' = "inc_write"
    /\ UNCHANGED syncVars
    /\ UNCHANGED <<imgFrame, imgTensors, imgOut, batch_size, img_count,
                   pending, registry, world, calls, reqVars, rstVars, dropped,
                   hist, cntVars>>

\* Line 104: self.img_count += 1, the write
ImgIncWrite ==
    /\ imgPc = "inc_write"
    /\ img_count' = imgTmp + 1
    /\ imgPc' = "cmp"
    /\ UNCHANGED syncVars
    /\ UNCHANGED <<imgFrame, imgTmp, imgTensors, imgOut, batch_size, pending,
                   registry, world, calls, reqVars, rstVars, dropped, hist,
                   cntVars>>

\* Line 105: if self.img_count == self.batch_size:
ImgCmp ==
    /\ imgPc = "cmp"
    /\ IF AutoFlushDue(img_count, batch_size)
          THEN /\ imgPc' = "aflush"
               /\ UNCHANGED <<imgOut, hist>>
          ELSE /\ imgPc' = "idle"
               /\ imgOut' = "ok"
               /\ hist' = Returned("image", calls, pending, img_count)
    /\ UNCHANGED syncVars
    /\ UNCHANGED <<imgFrame, imgTmp, imgTensors, batch_size, img_count,
                   pending, registry, world, calls, reqVars, rstVars, dropped,
                   cntVars>>

\* Line 106: image_tensor, depths, cam_locs = self.data.get_tensors(...)
\* Unpacking None raises TypeError, which ends the callback.
ImgFlush ==
    /\ imgPc = "aflush"
    /\ pending' = <<>>
    /\ IF Unpackable(get_tensors(pending))
          THEN /\ imgTensors' = get_tensors(pending)
               /\ imgPc' = "aupdate"
               /\ UNCHANGED <<imgOut, hist>>
          ELSE /\ imgPc' = "idle"
               /\ imgOut' = "TypeError"
               /\ hist' = Returned("image", calls, pending', img_count)
               /\ UNCHANGED imgTensors
    /\ UNCHANGED syncVars
    /\ UNCHANGED <<imgFrame, imgTmp, batch_size, img_count, registry, world,
                   calls, reqVars, rstVars, dropped, cntVars>>

\* Line 107: self.world.batched_update_world(image_tensor, depths, cam_locs)
ImgUpdate ==
    /\ imgPc = "aupdate"
    /\ world' = batched_update_world(world, imgTensors.frames)
    /\ calls' = Append(calls, UpdateCall(imgTensors.frames))
    /\ imgPc' = "azero"
    /\ UNCHANGED syncVars
    /\ UNCHANGED <<imgFrame, imgTmp, imgTensors, imgOut, batch_size,
                   img_count, pending, registry, reqVars, rstVars, dropped,
                   hist, cntVars>>

\* Line 108: self.img_count = 0
ImgZero_Kept ==
    /\ imgPc = "azero"
    /\ imgPc' = "idle"
    /\ imgOut' = "ok"
    /\ hist' = Returned("image", calls, pending, img_count)
    /\ UNCHANGED syncVars
    /\ UNCHANGED <<imgFrame, imgTmp, imgTensors, batch_size, img_count,
                   pending, registry, world, calls, reqVars, rstVars, dropped,
                   cntVars>>

ImgZero ==
    /\ imgPc = "azero"
    /\ img_count' = 0
    /\ imgPc' = "idle"
    /\ imgOut' = "ok"
    /\ hist' = Returned("image", calls, pending, img_count')
    /\ UNCHANGED syncVars
    /\ UNCHANGED <<imgFrame, imgTmp, imgTensors, batch_size, pending,
                   registry, world, calls, reqVars, rstVars, dropped, cntVars>>

\* --------------------------------------------- _reset_callback (110-114)
\* Line 111: self.world.reset_world()
RstWorld ==
    /\ rstPc = "idle"
    /\ nRst < MaxResets
    /\ nRst' = nRst + 1
    /\ world' = <<>>
    /\ calls' = Append(calls, ResetCall)
    /\ rstPc' = "data"
    /\ rstSnap' = OtherHandlers
    /\ UNCHANGED syncVars
    /\ UNCHANGED <<batch_size, img_count, pending, registry, reqVars,
                   imgVars, dropped, hist, nImg, nReq, nCls,
                   nBad>>

\* Line 112: self.data.reset_all()
RstData_Flushed ==
    /\ rstPc = "data"
    /\ pending' = <<>>
    /\ registry' = UnsetRegistry
    /\ world' = batched_update_world(world, pending)
    /\ calls' = Append(calls, UpdateCall(pending))
    /\ dropped' = dropped \cup { pending[i] : i \in DOMAIN pending }
    /\ rstPc' = "count"
    /\ UNCHANGED syncVars
    /\ UNCHANGED <<batch_size, img_count, reqVars, imgVars, rstSnap, hist,
                   cntVars>>

RstData ==
    /\ rstPc = "data"
    /\ pending' = <<>>
    /\ registry' = UnsetRegistry
    /\ dropped' = dropped \cup { pending[i] : i \in DOMAIN pending }
    /\ rstPc' = "count"
    /\ UNCHANGED syncVars
    /\ UNCHANGED <<batch_size, img_count, world, calls, reqVars, imgVars,
                   rstSnap, hist, cntVars>>

\* Line 113: self.img_count = 0
RstCount_Kept ==
    /\ rstPc = "count"
    /\ rstPc' = "idle"
    /\ hist' = Returned("reset", calls, pending, img_count)
    /\ UNCHANGED syncVars
    /\ UNCHANGED <<batch_size, img_count, pending, registry, world, calls,
                   reqVars, imgVars, rstSnap, dropped, cntVars>>

RstCount ==
    /\ rstPc = "count"
    /\ img_count' = 0
    /\ rstPc' = "idle"
    /\ hist' = Returned("reset", calls, pending, img_count')
    /\ UNCHANGED syncVars
    /\ UNCHANGED <<batch_size, pending, registry, world, calls, reqVars,
                   imgVars, rstSnap, dropped, cntVars>>

\* ----------------------------------------- _class_name_callback (116-128)
ClassName ==
    /\ nCls < MaxClassUpdates
    /\ nCls' = nCls + 1
    /\ \E msg \in ClassMsgs :
          registry' = add_class_info(msg.classes, PromptsDict(msg.prompts),
                                     msg.use_prompts)
    /\ hist' = Returned("classes", calls, pending, img_count)
    /\ UNCHANGED syncVars
    /\ UNCHANGED <<batch_size, img_count, pending, world, calls, reqVars,
                   imgVars, rstVars, dropped, nImg, nReq, nRst,
                   nBad>>

\* ------------------------------------------------------- specifications
\* Fewer than MaxRacing messages have been delivered.
Budget == nImg + nReq + nRst + nCls + nBad < MaxRacing

\* The handlers as rospy runs them: every interleaving of their statements.
Next ==
    \/ \E r \in Reqs : Budget /\ ReqStart(r)
    \/ \E r \in Reqs : ReqFlush(r)
    \/ \E r \in Reqs : ReqUpdate(r)
    \/ \E r \in Reqs : ReqFlag(r)
    \/ \E r \in Reqs : ReqQuery(r)
    \/ \E r \in Reqs : ReqEncode(r)
    \/ Budget /\ ImgStart
    \/ Budget /\ ImgBad
    \/ ImgAdd
    \/ ImgIncRead
    \/ ImgIncWrite
    \/ ImgCmp
    \/ ImgFlush
    \/ ImgUpdate
    \/ ImgZero
    \/ Budget /\ RstWorld
    \/ RstData
    \/ RstCount
    \/ Budget /\ ClassName

Spec == Init /\ [][Next]_vars

\* The thread of a request that has started is scheduled again and again;
\* nothing is assumed about the other handlers.
SpecFair == Spec /\ \A r \in Reqs : WF_vars(ReqStep(r))

\* The handlers one at a time: a handler starts only when none is running.
NextSeq ==
    \/ \E r \in Reqs : Quiescent /\ ReqStart(r)
    \/ \E r \in Reqs : ReqFlush(r)
    \/ \E r \in Reqs : ReqUpdate(r)
    \/ \E r \in Reqs : ReqFlag(r)
    \/ \E r \in Reqs : ReqQuery(r)
    \/ \E r \in Reqs : ReqEncode(r)
    \/ Quiescent /\ ImgStart
    \/ Quiescent /\ ImgBad
    \/ ImgAdd
    \/ ImgIncRead
    \/ ImgIncWrite
    \/ ImgCmp
    \/ ImgFlush
    \/ ImgUpdate
    \/ ImgZero
    \/ Quiescent /\ RstWorld
    \/ RstData
    \/ RstCount
    \/ Quiescent /\ ClassName

SpecSeq == Init /\ [][NextSeq]_vars

\* The encoding on its own: a request stands before line 60 with a grid of
\* one voxel whose label is any of LabelLo .. LabelHi.
InitEnc ==
    /\ batch_size \in 0..MaxBatch
    /\ img_count = 0
    /\ pending = <<>>
    /\ registry = UnsetRegistry
    /\ world = <<>>
    /\ calls = <<>>
    /\ reqPc = [r \in Reqs |-> IF r = 1 THEN "encode" ELSE "idle"]
    /\ reqTensors = [r \in Reqs |-> NoTensors]
    /\ reqFlag = [r \in Reqs |-> FALSE]
    /\ \E l \in LabelLo..LabelHi :
          reqVoxels = [r \in Reqs |->
                         [world |-> <<>>, vocab |-> <<>>, labels |-> <<l>>]]
    /\ reqOut = [r \in Reqs |-> NoResponse]
    /\ imgPc = "idle"
    /\ imgFrame = 0
    /\ imgTmp = 0
    /\ imgTensors = NoTensors
    /\ imgOut = None
    /\ rstPc = "idle"
    /\ rstSnap = <<>>
    /\ dropped = {}
    /\ hist = <<>>
    /\ nImg = 0 /\ nReq = 1 /\ nRst = 0 /\ nCls = 0 /\ nBad = 0
    /\ SyncInit

NextEnc == \E r \in Reqs : ReqEncode(r)

SpecEnc == InitEnc /\ [][NextEnc]_vars

\* The ImageSaver node on its own.
NextSync ==
    \/ SensorArrive
    \/ TfArrive

SpecSync == Init /\ [][NextSync]_vars

\* ------------------------------------------------------------ bookkeeping
\* The frames whose add_depth_image has been executed.
AddedFrames == { f \in 1..nImg : ~(imgPc = "add" /\ f = imgFrame) }

\* The positions of the calls at which frame f was passed to
\* batched_update_world.
AppliedAt(f) ==
    { i \in DOMAIN calls :
        /\ calls[i].op = "update"
        /\ \E j \in DOMAIN calls[i].arg : calls[i].arg[j] = f }

\* The frames passed to batched_update_world so far.
AppliedFrames == { f \in 1..nImg : AppliedAt(f) # {} }

\* A request is past its get_tensors and has not yet returned.
ReqInSection(r) == reqPc[r] \in {"update", "query", "vocab", "encode"}

\* The image callback is past the get_tensors of its auto-flush and has not
\* yet reset the counter.
ImgInSection == imgPc \in {"aupdate", "azero"}

\* The reset callback is past its first statement and has not yet returned.
RstInSection == rstPc \in {"data", "count"}

\* The state the k-th returned handler left behind; 0 is the initial state.
At(k) ==
    IF k = 0
       THEN [op |-> "init", ncalls |-> 0, npend |-> 0, count |-> 0,
             nadded |-> 0]
       ELSE hist[k]

\* No handler is running and the handler that returned last is an 'op'.
AfterHandler(op) ==
    /\ Quiescent
    /\ hist # <<>>
    /\ hist[Len(hist)].op = op

\* The calls made on the world after the k-th handler returned.
CallsSince(k) == SubSeq(calls, At(k).ncalls + 1, Len(calls))

\* The frames a+1 .. b in the order of their arrival.
Frames(a, b) == [i \in 1..(b - a) |-> a + i]

\* The last handler before the k-th that was a request or a reset.
LastFlushPoint(k) ==
    LET S == { i \in 1..(k - 1) : hist[i].op \in {"request", "reset"} }
    IN IF S = {} THEN 0 ELSE CHOOSE i \in S : \A j \in S : j <= i

\* The last handler before the k-th that left nothing pending.
LastEmptyPoint(k) ==
    LET S == { i \in 0..(k - 1) : At(i).npend = 0 }
    IN CHOOSE i \in S : \A j \in S : j <= i

\* --------------------------------------------------------------- claims
\* C1: when a request calls get_voxel_classes, every frame appended before
\* that moment and not removed by a reset has already been passed to
\* batched_update_world, whatever the interleaving with image callbacks.
C1_QuerySeesEveryIngestedFrame ==
    [][ \A r \in Reqs :
          (reqPc[r] = "vocab" /\ reqPc'[r] = "encode")
             => AddedFrames \subseteq (AppliedFrames \cup dropped) ]_vars

\* C2: the flush-to-finish sections of the compute requests and of the
\* auto-flush of the image callback exclude one another: at most one of
\* them is inside its section at any time.
C2_OneFlushSectionAtATime ==
    Cardinality({ r \in Reqs : ReqInSection(r) })
        + (IF ImgInSection THEN 1 ELSE 0) <= 1

\* C3: when a compute request and an image callback whose append reaches
\* batch_size interleave, both complete (the callback does not end in an
\* exception) and every appended frame is passed to batched_update_world
\* exactly once.
C3_BothCompleteEachFrameOnce ==
    (nRst = 0 /\ batch_size # 0) =>
        /\ imgOut # "TypeError"
        /\ \A f \in AddedFrames : Cardinality(AppliedAt(f)) <= 1
        /\ Quiescent =>
              \A f \in AddedFrames :
                 \/ Cardinality(AppliedAt(f)) = 1
                 \/ \E j \in DOMAIN pending : pending[j] = f

\* C4: in manual mode, n >= 1 image callbacks followed by one compute
\* request (no reset in between) make exactly one batched_update_world
\* call, with all n frames in the order of their arrival, and that call
\* precedes the get_voxel_classes call.
C4_ManualRequestFlushesOnce ==
    (batch_size = 0 /\ AfterHandler("request")) =>
        LET k   == Len(hist)
            j   == LastFlushPoint(k)
            seg == CallsSince(j)
        IN  At(k).nadded - At(j).nadded >= 1 =>
               /\ Len(seg) = 2
               /\ seg[1].op = "update"
               /\ seg[1].arg = Frames(At(j).nadded, At(k).nadded)
               /\ seg[2].op = "query"

C4_Witness ==
    /\ batch_size = 0
    /\ AfterHandler("request")
    /\ Len(hist) = 4
    /\ \A i \in 1..3 : hist[i].op = "image"
    /\ Len(calls) = 2
    /\ calls[1].op = "update"
    /\ calls[1].arg = <<1, 2, 3>>

\* C5: with batch_size set, between handlers img_count equals the number
\* of pending frames.
C5_CounterEqualsPending ==
    (batch_size # 0 /\ Quiescent) => img_count = Len(pending)

\* C6: with batch_size = B set, B image callbacks in a row that start from
\* an empty accumulator and a zero counter leave the accumulator empty, the
\* counter zero and exactly one batched_update_world call with those B
\* frames; fewer than B of them make no batched_update_world call.
C6_AutoFlushAfterBatchSizeAppends ==
    (batch_size # 0 /\ AfterHandler("image")) =>
        LET k == Len(hist)
        IN \A m \in 1..batch_size :
              ( /\ m <= k
                /\ \A i \in (k - m + 1)..k : hist[i].op = "image"
                /\ At(k - m).npend = 0
                /\ At(k - m).count = 0 )
              => IF m = batch_size
                    THEN /\ pending = <<>>
                         /\ img_count = 0
                         /\ Len(CallsSince(k - m)) = 1
                         /\ CallsSince(k - m)[1].op = "update"
                         /\ CallsSince(k - m)[1].arg
                               = Frames(At(k - m).nadded, At(k).nadded)
                    ELSE /\ CallsSince(k - m) = <<>>
                         /\ Len(pending) = m
                         /\ img_count = m

C6_Witness ==
    /\ batch_size = 2
    /\ AfterHandler("image")
    /\ Len(hist) = 3
    /\ hist[1].op = "request"
    /\ hist[2].op = "image"
    /\ calls[Len(calls)].op = "update"
    /\ calls[Len(calls)].arg = <<1, 2>>
    /\ pending = <<>>
    /\ img_count = 0

\* C7: the flush of a compute request hands the engine exactly the frames
\* appended since the accumulator was last empty, in the order of their
\* arrival, and a second request right after it finds nothing pending and
\* makes no batched_update_world call.
C7_RequestFlushIsFifoThenEmpty ==
    AfterHandler("request") =>
        LET k   == Len(hist)
            j   == LastEmptyPoint(k)
            seg == CallsSince(k - 1)
        IN  /\ pending = <<>>
            /\ At(k).nadded - At(j).nadded >= 1 =>
                   /\ Len(seg) = 2
                   /\ seg[1].op = "update"
                   /\ seg[1].arg = Frames(At(j).nadded, At(k).nadded)
                   /\ seg[2].op = "query"
            /\ At(k - 1).op = "request" =>
                   /\ Len(seg) = 1
                   /\ seg[1].op = "query"

C7_Witness ==
    /\ batch_size = 2
    /\ AfterHandler("request")
    /\ Len(hist) = 3
    /\ hist[1].op = "image"
    /\ hist[2].op = "request"
    /\ Len(calls) = 3
    /\ calls[1].op = "update"
    /\ calls[1].arg = <<1>>
    /\ calls[3].op = "query"

\* C8: when _reset_callback returns, its statements having run with no
\* statement of another handler in between, nothing is pending (a flush
\* returns None), img_count is 0, the registry is unset (no vocabulary of
\* an earlier class update is left) and the world is empty, whatever the
\* state the reset started from.
C8_ResetClearsEverything ==
    [][ (rstPc = "count" /\ rstPc' = "idle" /\ rstSnap = OtherHandlers) =>
           /\ pending' = <<>>
           /\ ~HasTensors(get_tensors(pending'))
           /\ img_count' = 0
           /\ registry'.use_prompts = None
           /\ DOMAIN registry'.classes = {}
           /\ DOMAIN registry'.prompts = {}
           /\ DOMAIN Vocabulary(registry') = {}
           /\ world' = <<>> ]_vars

\* A reset has just returned that ran on its own and started with the
\* counter left at batch_size by an image callback that had failed.
C8_Witness ==
    /\ rstPc = "idle"
    /\ hist # <<>>
    /\ hist[Len(hist)].op = "reset"
    /\ rstSnap = OtherHandlers
    /\ imgOut = "TypeError"
    /\ At(Len(hist) - 1).count = batch_size
    /\ img_count = 0
    /\ pending = <<>>

\* C9: a reset is atomic with respect to a compute request: the reset is
\* never between its first and last statement while a request is between
\* its flush and its return.
C9_ResetAtomicWithRequest ==
    ~(RstInSection /\ \E r \in Reqs : ReqInSection(r))

\* C10: a compute request issued while the registry is unset fails with
\* NoVocabularyConfiguredError: no get_voxel_classes call is made with an
\* empty vocabulary and no response is computed from one.
C10_UnsetRegistryFailsRequest ==
    /\ \A i \in DOMAIN calls :
          calls[i].op = "query" => DOMAIN calls[i].arg # {}
    /\ \A r \in Reqs :
          reqOut[r].kind = "response"
             => DOMAIN reqOut[r].voxels.vocab # {}

\* C11: every query is made with the one representation that the
\* use_prompts flag of the registry in force (the most recent completed
\* class update) selects: its prompts if the flag is true, else its classes.
C11_QueryUsesFlagOfLatestUpdate ==
    [][ \A r \in Reqs :
          (reqPc[r] = "vocab" /\ reqPc'[r] = "encode") =>
             calls'[Len(calls')].kind
                = (IF Truthy(registry.use_prompts) THEN "prompts"
                                                   ELSE "classes") ]_vars

\* C12: every label L in -1 .. 254 is encoded as a byte in 0 .. 255 from
\* which the decoding (byte - 1) gives L back, and -1 is the only such
\* label whose byte is 0.
C12_LabelRoundTrip ==
    \A r \in Reqs :
       reqOut[r].kind = "response" =>
          \A i \in DOMAIN reqOut[r].data :
             LET L == reqOut[r].voxels.labels[i]
                 b == reqOut[r].data[i]
             IN  L \in -1..254 =>
                    /\ b \in 0..255
                    /\ b - 1 = L
                    /\ (b = 0) <=> (L = -1)

C12_Witness ==
    /\ reqOut[1].kind = "response"
    /\ reqOut[1].voxels.labels = <<254>>
    /\ reqOut[1].data = <<255>>

\* C14: an image message that cannot be decoded ends its callback without
\* appending anything: the pending sequence, the counter and the world are
\* what they were, the callback is ready for the next message, and a valid
\* frame handled afterwards is appended at the end of the pending sequence.
C14_BadFrameIsIsolated ==
    [][ /\ (nBad' # nBad) =>
              /\ pending' = pending
              /\ img_count' = img_count
              /\ world' = world
              /\ calls' = calls
              /\ imgPc' = "idle"
        /\ (imgPc = "add" /\ imgPc' # "add") =>
              pending' = Append(pending, imgFrame) ]_vars

\* A frame was appended to a pending frame after a message in between had
\* failed to decode.
C14_Witness ==
    /\ Len(hist) = 3
    /\ hist[1].op = "image"
    /\ hist[2].op = "badimage"
    /\ hist[3].op = "image"
    /\ pending = <<1, 2>>
    /\ imgOut = "ok"

\* The stamps of a topic that some stored frame has consumed.
Consumed(c) == { saved[i][c] : i \in DOMAIN saved }

\* C13: the frame callback runs only for one message of every topic with
\* all stamps within slop, no message is in two frames, RGB at 1.00 with
\* depth at 1.04 and a pose at 1.02 give exactly one frame, and depth at
\* 1.00 with RGB at 2.00 give none.
C13_SynchronizerScenarios ==
    /\ \A i \in DOMAIN saved : Abs(saved[i].rgb - saved[i].depth) <= Slop
    /\ \A i, j \in DOMAIN saved :
          i # j => saved[i].rgb # saved[j].rgb /\ saved[i].depth # saved[j].depth
    /\ ( /\ syncQ["rgb"] \cup Consumed("rgb") = {100}
         /\ syncQ["depth"] \cup Consumed("depth") = {104}
         /\ tfSeen = {102} ) => Len(saved) = 1
    /\ ( /\ syncQ["rgb"] \cup Consumed("rgb") = {200}
         /\ syncQ["depth"] \cup Consumed("depth") = {100} ) => Len(saved) = 0

\* C15: in manual mode (batch_size None) the image callback never reaches
\* its get_tensors or batched_update_world, img_count stays 0, and frames
\* leave the pending sequence only by the flush of a request or by a reset:
\* while no request and no reset has come, every appended frame is pending.
C15_ManualModeKeepsFrames ==
    /\ [](batch_size = 0 =>
            /\ img_count = 0
            /\ imgPc \in {"idle", "add"}
            /\ (nReq = 0 /\ nRst = 0) =>
                  /\ pending = Frames(0, Cardinality(AddedFrames))
                  /\ calls = <<>>)
    /\ [][batch_size = 0 =>
            /\ imgPc' # imgPc => (calls' = calls /\ Len(pending') >= Len(pending))
            /\ Len(pending') < Len(pending) =>
                  \/ \E r \in Reqs : reqPc[r] = "flush" /\ reqPc'[r] # "flush"
                  \/ rstPc = "data" /\ rstPc' = "count"]_vars

C15_Witness ==
    /\ batch_size = 0
    /\ nReq = 0
    /\ nRst = 0
    /\ imgPc = "idle"
    /\ pending = <<1, 2, 3>>
    /\ img_count = 0

\* C16: whenever get_tensors returns the nothing-pending result, its caller
\* completes normally and makes no batched_update_world call: the request
\* goes on to its query, and the image callback does not fail.
C16_NothingPendingIsNotAnError ==
    [][ /\ \A r \in Reqs :
             (reqPc[r] = "flush" /\ reqPc'[r] # "flush" /\ pending = <<>>) =>
                (reqPc'[r] = "query" /\ calls' = calls)
        /\ (imgPc = "aflush" /\ imgPc' # "aflush" /\ pending = <<>>) =>
                (imgOut' # "TypeError" /\ calls' = calls) ]_vars

\* C17: no step of _reset_callback calls batched_update_world, and a frame
\* that was pending when the reset discarded the accumulator is never passed
\* to batched_update_world, by the reset or by any later flush.
C17_ResetDiscardsWithoutEngine ==
    /\ [](dropped \cap AppliedFrames = {})
    /\ [][rstPc' # rstPc =>
            \A i \in DOMAIN calls' :
               i > Len(calls) => calls'[i].op # "update"]_vars

C17_Witness ==
    /\ dropped # {}
    /\ rstPc = "idle"
    /\ \E i, j \in DOMAIN calls :
          i < j /\ calls[i].op = "reset" /\ calls[j].op = "update"

\* C18: a request that has started returns: it passes Idle, Flushing,
\* Querying, Encoding, Idle in that order, its next statement is enabled
\* whatever the other handlers are doing, and it returns with a response.
C18_RequestTerminates ==
    /\ \A r \in Reqs : (reqPc[r] # "idle") ~> (reqPc[r] = "idle")
    /\ [](\A r \in Reqs : reqPc[r] # "idle" => ENABLED ReqStep(r))
    /\ [][\A r \in Reqs :
            Phase(reqPc'[r]) # Phase(reqPc[r]) =>
               /\ <<Phase(reqPc[r]), Phase(reqPc'[r])>> \in
                     { <<"Idle", "Flushing">>, <<"Flushing", "Querying">>,
                       <<"Querying", "Encoding">>, <<"Encoding", "Idle">> }
               /\ Phase(reqPc'[r]) = "Idle" => reqOut'[r].kind = "response"]_vars

C18_Witness ==
    /\ nReq = 1
    /\ reqPc[1] = "idle"
    /\ reqOut[1].kind = "response"
    /\ imgPc = "cmp"
    /\ rstPc = "data"

\* C19: with a batch size B and the handlers run one at a time, between
\* handlers 0 <= img_count < B and no more frames are pending than img_count
\* counts; so a batch that an auto-flush passes to batched_update_world holds
\* at least 1 and at most B frames.
C19_CounterBoundsBatch ==
    /\ (BatchMode(batch_size) /\ Quiescent) =>
          /\ 0 <= img_count
          /\ img_count < batch_size
          /\ Len(pending) <= img_count
    /\ (BatchMode(batch_size) /\ imgPc = "aupdate") =>
          /\ Len(imgTensors.frames) >= 1
          /\ Len(imgTensors.frames) <= batch_size

C19_Witness ==
    /\ batch_size = 2
    /\ imgPc = "aupdate"
    /\ Len(imgTensors.frames) = 1
    /\ nReq = 1

\* C20: a statement of a compute request leaves img_count, the batch size
\* and the class registry as they are; a class update leaves the pending
\* sequence, img_count, the world and the engine's call log as they are.
C20_FrameConditions ==
    [][ /\ (nReq' # nReq \/ \E r \in Reqs : reqPc'[r] # reqPc[r]) =>
              /\ img_count' = img_count
              /\ batch_size' = batch_size
              /\ registry' = registry
        /\ nCls' # nCls =>
              /\ pending' = pending
              /\ img_count' = img_count
              /\ world' = world
              /\ calls' = calls
              /\ registry'.use_prompts \in {"True", "False"} ]_vars

C20_Witness ==
    /\ img_count = 1
    /\ registry.use_prompts = "True"
    /\ world # <<>>
    /\ \E i, j \in DOMAIN hist :
          i < j /\ hist[i].op = "classes" /\ hist[j].op = "request"

====
